---- MODULE Spec2Model ----
(***************************************************************************)
(* Model of neuroscout_cli/workflows/first_level.py: the first-level       *)
(* workflow assembled by create_first_level and the three functions it     *)
(* wraps into nodes (get_data, sort_copes, get_subs).                      *)
(*                                                                         *)
(* Python strings are sequences of one-character strings, so that          *)
(* formatting, concatenation and substring search are computed.            *)
(* Python values that may be either a scalar or a list are records         *)
(* [t, v, items]: t = "atom" with payload v, or t = "list" with items.     *)
(***************************************************************************)
EXTENDS Integers, Sequences, FiniteSets, TLC

VARIABLES
    args,       \* arguments of the function call under study
    result,     \* what the call returned or raised; NotCalled before it
    wf,         \* the workflow create_first_level returned; NoWorkflow before
    phase,      \* "off" | "new" | "built" | "expanded" | "failed"
    nodes,      \* the replicas <<node, k>> of the expanded graph
    edges,      \* the connections of the expanded graph, between replicas
    done,       \* the replicas that have run
    outputs,    \* the output ports of the replicas that have run
    published   \* what each datasink replica was handed when it ran

vars == <<args, result, wf, phase, nodes, edges, done, outputs, published>>

callVars == <<args, result>>
wfVars == <<wf, phase, nodes, edges, done, outputs, published>>

NotCalled == [status |-> "not_called"]

NoWorkflow == [connections |-> {}, iterables |-> <<>>]

(***************************************************************************)
(* Bounds                                                                  *)
(***************************************************************************)
MaxRuns == 3         \* runs per subject handed to sort_copes
MaxContrasts == 2    \* contrasts handed to sort_copes
MaxConds == 11       \* contrasts handed to get_subs
MaxSubjects == 2     \* subjects handed to create_first_level
MaxSubjectNo == 2    \* subject numbers 1..MaxSubjectNo
MaxRunNo == 2        \* run numbers 1..MaxRunNo
MaxRows == 2         \* rows of the event table
MaxManifest == 2     \* entries of the runs manifest

(***************************************************************************)
(* Python string helpers                                                   *)
(***************************************************************************)
DigitChar(d) == <<"0", "1", "2", "3", "4", "5", "6", "7", "8", "9">>[d + 1]

DigitValue(c) == CHOOSE d \in 0..9 : DigitChar(d) = c

RECURSIVE Fmt_d(_)
\* '%d' % n and str(n), n >= 0
Fmt_d(n) == IF n < 10 THEN <<DigitChar(n)>>
            ELSE Fmt_d(n \div 10) \o <<DigitChar(n % 10)>>

\* '%02d' % n : zero-padded to a minimum width of two
Fmt_02d(n) == IF Len(Fmt_d(n)) < 2 THEN <<"0">> \o Fmt_d(n) ELSE Fmt_d(n)

RECURSIVE PyIntOfStr(_)
\* int(s) for a string of decimal digits
PyIntOfStr(s) == IF Len(s) = 0 THEN 0
                 ELSE 10 * PyIntOfStr(SubSeq(s, 1, Len(s) - 1)) + DigitValue(s[Len(s)])

(***************************************************************************)
(* Subject identifiers: an int, or a str of decimal digits.                *)
(***************************************************************************)
IntId(n) == [kind |-> "int", n |-> n, s |-> <<>>]
StrId(s) == [kind |-> "str", n |-> 0, s |-> s]

\* int(subject_id)
PyInt(x) == IF x.kind = "int" THEN x.n ELSE PyIntOfStr(x.s)

\* '%s' % subject_id
PyStr(x) == IF x.kind = "int" THEN Fmt_d(x.n) ELSE x.s

\* a == b in Python: an int never equals a str
PyEq(a, b) == /\ a.kind = b.kind
              /\ IF a.kind = "int" THEN a.n = b.n ELSE a.s = b.s

Forms == {"int", "str", "padded"}

\* subject number n written as the int n, as str(n), or zero-padded ("01")
FormOf(n, f) == IF f = "int" THEN IntId(n)
                ELSE IF f = "str" THEN StrId(Fmt_d(n))
                ELSE StrId(Fmt_02d(n))

SubjectForms(n) == {FormOf(n, f) : f \in Forms}

SubjectIds == UNION {SubjectForms(n) : n \in 1..MaxSubjectNo}

(***************************************************************************)
(* get_subs (lines 146-168)                                                *)
(***************************************************************************)
S_subject_id_ == <<"_", "s", "u", "b", "j", "e", "c", "t", "_", "i", "d", "_">>
S_flameo == <<"_", "f", "l", "a", "m", "e", "o">>
S_warpall == <<"_", "w", "a", "r", "p", "a", "l", "l">>
S_cope1 == <<"/", "c", "o", "p", "e", "1", ".">>
S_varcope1 == <<"/", "v", "a", "r", "c", "o", "p", "e", "1", ".">>
S_zstat1 == <<"/", "z", "s", "t", "a", "t", "1", ".">>
S_tstat1 == <<"/", "t", "s", "t", "a", "t", "1", ".">>
S_res4d1 == <<"/", "r", "e", "s", "4", "d", ".">>
S_cope1_warp == <<"/", "c", "o", "p", "e", "1", "_", "w", "a", "r", "p", ".">>
S_varcope1_warp == <<"/", "v", "a", "r", "c", "o", "p", "e", "1", "_", "w", "a", "r", "p", ".">>
S_zstat1_warp == <<"/", "z", "s", "t", "a", "t", "1", "_", "w", "a", "r", "p", ".">>
S_cope1_trans == <<"/", "c", "o", "p", "e", "1", "_", "t", "r", "a", "n", "s", ".">>
S_varcope1_trans == <<"/", "v", "a", "r", "c", "o", "p", "e", "1", "_", "t", "r", "a", "n", "s", ".">>
S_zstat1_trans == <<"/", "z", "s", "t", "a", "t", "1", "_", "t", "r", "a", "n", "s", ".">>
S_cope == <<"c", "o", "p", "e">>
S_varcope == <<"v", "a", "r", "c", "o", "p", "e">>
S_zstat == <<"z", "s", "t", "a", "t">>
S_tstat == <<"t", "s", "t", "a", "t">>
S_res4d == <<"r", "e", "s", "4", "d">>
S_dot == <<".">>

\* one (pattern, replacement) pair
Sub(pattern, replacement) == [pattern |-> pattern, replacement |-> replacement]

\* mutant: the warp stage indexed by i for all three output kinds
SubsForIndex_SameOffset(i, n) ==
    << Sub(S_flameo \o Fmt_d(i) \o S_cope1, S_cope \o Fmt_02d(i + 1) \o S_dot),
       Sub(S_flameo \o Fmt_d(i) \o S_varcope1, S_varcope \o Fmt_02d(i + 1) \o S_dot),
       Sub(S_flameo \o Fmt_d(i) \o S_zstat1, S_zstat \o Fmt_02d(i + 1) \o S_dot),
       Sub(S_flameo \o Fmt_d(i) \o S_tstat1, S_tstat \o Fmt_02d(i + 1) \o S_dot),
       Sub(S_flameo \o Fmt_d(i) \o S_res4d1, S_res4d \o Fmt_02d(i + 1) \o S_dot),
       Sub(S_warpall \o Fmt_d(i) \o S_cope1_warp, S_cope \o Fmt_02d(i + 1) \o S_dot),
       Sub(S_warpall \o Fmt_d(i) \o S_varcope1_warp, S_varcope \o Fmt_02d(i + 1) \o S_dot),
       Sub(S_warpall \o Fmt_d(i) \o S_zstat1_warp, S_zstat \o Fmt_02d(i + 1) \o S_dot),
       Sub(S_warpall \o Fmt_d(i) \o S_cope1_trans, S_cope \o Fmt_02d(i + 1) \o S_dot),
       Sub(S_warpall \o Fmt_d(i) \o S_varcope1_trans, S_varcope \o Fmt_02d(i + 1) \o S_dot),
       Sub(S_warpall \o Fmt_d(i) \o S_zstat1_trans, S_zstat \o Fmt_02d(i + 1) \o S_dot) >>

\* mutant: the cope keeps its directory, renumbered from one
SubsForIndex_KeepDir(i, n) ==
    << Sub(S_flameo \o Fmt_d(i) \o S_cope1, S_flameo \o Fmt_d(i + 1) \o S_cope1),
       Sub(S_flameo \o Fmt_d(i) \o S_varcope1, S_varcope \o Fmt_02d(i + 1) \o S_dot),
       Sub(S_flameo \o Fmt_d(i) \o S_zstat1, S_zstat \o Fmt_02d(i + 1) \o S_dot),
       Sub(S_flameo \o Fmt_d(i) \o S_tstat1, S_tstat \o Fmt_02d(i + 1) \o S_dot),
       Sub(S_flameo \o Fmt_d(i) \o S_res4d1, S_res4d \o Fmt_02d(i + 1) \o S_dot),
       Sub(S_warpall \o Fmt_d(i) \o S_cope1_warp, S_cope \o Fmt_02d(i + 1) \o S_dot),
       Sub(S_warpall \o Fmt_d(n + i) \o S_varcope1_warp, S_varcope \o Fmt_02d(i + 1) \o S_dot),
       Sub(S_warpall \o Fmt_d(2 * n + i) \o S_zstat1_warp, S_zstat \o Fmt_02d(i + 1) \o S_dot),
       Sub(S_warpall \o Fmt_d(i) \o S_cope1_trans, S_cope \o Fmt_02d(i + 1) \o S_dot),
       Sub(S_warpall \o Fmt_d(n + i) \o S_varcope1_trans, S_varcope \o Fmt_02d(i + 1) \o S_dot),
       Sub(S_warpall \o Fmt_d(2 * n + i) \o S_zstat1_trans, S_zstat \o Fmt_02d(i + 1) \o S_dot) >>

\* the eleven pairs appended by one pass of the loop, n = len(conds)
SubsForIndex(i, n) ==
    << Sub(S_flameo \o Fmt_d(i) \o S_cope1, S_cope \o Fmt_02d(i + 1) \o S_dot),
       Sub(S_flameo \o Fmt_d(i) \o S_varcope1, S_varcope \o Fmt_02d(i + 1) \o S_dot),
       Sub(S_flameo \o Fmt_d(i) \o S_zstat1, S_zstat \o Fmt_02d(i + 1) \o S_dot),
       Sub(S_flameo \o Fmt_d(i) \o S_tstat1, S_tstat \o Fmt_02d(i + 1) \o S_dot),
       Sub(S_flameo \o Fmt_d(i) \o S_res4d1, S_res4d \o Fmt_02d(i + 1) \o S_dot),
       Sub(S_warpall \o Fmt_d(i) \o S_cope1_warp, S_cope \o Fmt_02d(i + 1) \o S_dot),
       Sub(S_warpall \o Fmt_d(n + i) \o S_varcope1_warp, S_varcope \o Fmt_02d(i + 1) \o S_dot),
       Sub(S_warpall \o Fmt_d(2 * n + i) \o S_zstat1_warp, S_zstat \o Fmt_02d(i + 1) \o S_dot),
       Sub(S_warpall \o Fmt_d(i) \o S_cope1_trans, S_cope \o Fmt_02d(i + 1) \o S_dot),
       Sub(S_warpall \o Fmt_d(n + i) \o S_varcope1_trans, S_varcope \o Fmt_02d(i + 1) \o S_dot),
       Sub(S_warpall \o Fmt_d(2 * n + i) \o S_zstat1_trans, S_zstat \o Fmt_02d(i + 1) \o S_dot) >>

RECURSIVE GetSubsLoop(_, _, _)
\* for i in range(len(conds)): subs.append(...)
GetSubsLoop(subs, i, n) ==
    IF i >= n THEN subs ELSE GetSubsLoop(subs \o SubsForIndex(i, n), i + 1, n)

get_subs(subject_id, conds) ==
    GetSubsLoop(<<Sub(S_subject_id_ \o PyStr(subject_id), <<>>)>>, 0, Len(conds))

\* contrast definitions: only their number and order reach this file
Contrasts(n) == [i \in 1..n |-> <<"contrast", i>>]

GetSubsArgs ==
    {[fn |-> "get_subs", subject_id |-> s, conds |-> Contrasts(n)] :
        s \in SubjectIds, n \in 0..MaxConds}

CallGetSubs ==
    /\ args.fn = "get_subs"
    /\ result = NotCalled
    /\ result' = [status |-> "ok", subs |-> get_subs(args.subject_id, args.conds)]
    /\ UNCHANGED <<args, wfVars>>

WorkflowIdle ==
    /\ wf = NoWorkflow
    /\ phase = "off"
    /\ nodes = {}
    /\ edges = {}
    /\ done = {}
    /\ outputs = <<>>
    /\ published = <<>>

InitSubs == args \in GetSubsArgs /\ result = NotCalled /\ WorkflowIdle

NextSubs == CallGetSubs

SpecSubs == InitSubs /\ [][NextSubs]_vars

\* ---- properties of get_subs ----

StartsWith(s, p) == Len(p) <= Len(s) /\ SubSeq(s, 1, Len(p)) = p

EndsWith(s, p) == Len(p) <= Len(s) /\ SubSeq(s, Len(s) - Len(p) + 1, Len(s)) = p

\* p occurs in s as a contiguous run of characters
IsSubstring(p, s) ==
    \E o \in 0..(Len(s) - Len(p)) : SubSeq(s, o + 1, o + Len(p)) = p

\* the two-digit rendering of 1..99
TwoDigit(n) == <<DigitChar(n \div 10), DigitChar(n % 10)>>

GetSubsReturned == args.fn = "get_subs" /\ result.status = "ok"

\* the pattern names directory dir<idx> and a file whose name starts with stem
PatternIs(e, dir, idx, stem) ==
    StartsWith(e.pattern, dir \o Fmt_d(idx) \o <<"/">> \o stem)

\* C4: the table returned by get_subs starts with ('_subject_id_' + s, ''), and
\* every pair generated for contrast index i has a replacement ending in the
\* two-digit 1-based number of i followed by the dot, its pattern naming
\* directory index i for the _flameo and cope warp/trans patterns, C + i for
\* the varcope warp/trans patterns and 2C + i for the zstat warp/trans ones.
C4_SubsTable ==
    GetSubsReturned =>
        LET subs == result.subs
            C == Len(args.conds)
        IN  /\ Len(subs) = 1 + 11 * C
            /\ subs[1] = Sub(S_subject_id_ \o PyStr(args.subject_id), <<>>)
            /\ \A i \in 0..(C - 1) : \A k \in 1..11 :
                   LET e == subs[1 + 11 * i + k]
                   IN  /\ EndsWith(e.replacement, TwoDigit(i + 1) \o <<".">>)
                       /\ \/ PatternIs(e, S_flameo, i, <<>>)
                          \/ PatternIs(e, S_warpall, i, <<"c", "o", "p", "e", "1", "_">>)
                          \/ PatternIs(e, S_warpall, C + i,
                                       <<"v", "a", "r", "c", "o", "p", "e", "1", "_">>)
                          \/ PatternIs(e, S_warpall, 2 * C + i,
                                       <<"z", "s", "t", "a", "t", "1", "_">>)

\* the spec's example: subject "01", two contrasts; for i = 0 the varcope warp
\* pattern names _warpall2 and the zstat warp pattern _warpall4, suffix 01
C4_Witness ==
    /\ GetSubsReturned
    /\ args.subject_id = StrId(<<"0", "1">>)
    /\ Len(args.conds) = 2
    /\ result.subs[1].pattern = S_subject_id_ \o <<"0", "1">>
    /\ result.subs[8] = Sub(S_warpall \o <<"2">> \o S_varcope1_warp,
                            S_varcope \o <<"0", "1", ".">>)
    /\ result.subs[9] = Sub(S_warpall \o <<"4">> \o S_zstat1_warp,
                            S_zstat \o <<"0", "1", ".">>)
    /\ result.subs[13].replacement = S_cope \o <<"0", "2", ".">>

\* C5: in the table returned by get_subs no pattern occurs inside the
\* replacement text of an earlier pair.
C5_NoLaterRewrite ==
    GetSubsReturned =>
        \A j \in 1..Len(result.subs) : \A k \in (j + 1)..Len(result.subs) :
            ~IsSubstring(result.subs[k].pattern, result.subs[j].replacement)

\* a table with pairs for several contrasts, some index having two digits
C5_Witness ==
    /\ GetSubsReturned
    /\ Len(args.conds) = MaxConds
    /\ Len(result.subs) > 100

(***************************************************************************)
(* sort_copes (lines 110-123)                                              *)
(***************************************************************************)
Atom(v) == [t |-> "atom", v |-> v, items |-> <<>>]
List(items) == [t |-> "list", v |-> <<>>, items |-> items]

\* isinstance(x, list)
IsList(x) == x.t = "list"

AllAtoms(x) == \A i \in 1..Len(x.items) : ~IsList(x.items[i])

\* a list of lists of scalars, all of one length
Rectangular(x) ==
    /\ Len(x.items) > 0
    /\ \A i \in 1..Len(x.items) :
          /\ IsList(x.items[i])
          /\ AllAtoms(x.items[i])
          /\ Len(x.items[i].items) = Len(x.items[1].items)

RECURSIVE Concat(_)
Concat(rows) == IF Len(rows) = 0 THEN <<>> ELSE Head(rows).items \o Concat(Tail(rows))

\* np.array(x).flatten(). A scalar gives one element, a list of scalars its
\* elements, a rectangular nesting its rows one after the other. For any
\* other nesting the result depends on the installed numpy: older releases
\* build a one-dimensional array holding the top-level elements as objects,
\* newer ones raise ValueError.
NpFlatten(x, np_ragged) ==
    IF ~IsList(x) THEN [status |-> "ok", flat |-> <<x>>]
    ELSE IF AllAtoms(x) THEN [status |-> "ok", flat |-> x.items]
    ELSE IF Rectangular(x) THEN [status |-> "ok", flat |-> Concat(x.items)]
    ELSE IF np_ragged = "object" THEN [status |-> "ok", flat |-> x.items]
    ELSE [status |-> "ValueError"]

\* mutant: the reshaped matrix is returned without being transposed
ReshapeT_NoTranspose(flat, n) ==
    IF n = 0 THEN [status |-> "ZeroDivisionError"]
    ELSE LET k == Len(flat) \div n
         IN  IF k * n # Len(flat) THEN [status |-> "ValueError"]
             ELSE [status |-> "ok",
                   out |-> [r \in 1..k |-> [j \in 1..n |-> flat[(r - 1) * n + j]]]]

\* mutant: the elements beyond int(len / n) full rows are dropped
ReshapeT_Truncate(flat, n) ==
    IF n = 0 THEN [status |-> "ZeroDivisionError"]
    ELSE LET k == Len(flat) \div n
         IN  [status |-> "ok",
              out |-> [j \in 1..n |-> [r \in 1..k |-> flat[(r - 1) * n + j]]]]

\* flat.reshape(int(len(flat) / n), n).T.tolist(): numpy refuses a shape whose
\* size is not that of the array
ReshapeT(flat, n) ==
    IF n = 0 THEN [status |-> "ZeroDivisionError"]
    ELSE LET k == Len(flat) \div n
         IN  IF k * n # Len(flat) THEN [status |-> "ValueError"]
             ELSE [status |-> "ok",
                   out |-> [j \in 1..n |-> [r \in 1..k |-> flat[(r - 1) * n + j]]]]

\* lines 112-114: both series are wrapped when copes is not a list
WrapCopes(copes, varcopes) == IF IsList(copes) THEN copes ELSE List(<<copes>>)
WrapVarcopes(copes, varcopes) == IF IsList(copes) THEN varcopes ELSE List(<<varcopes>>)

sort_copes(copes, varcopes, contrasts, np_ragged) ==
    LET c == WrapCopes(copes, varcopes)
        v == WrapVarcopes(copes, varcopes)
        num_copes == Len(contrasts)
        n_runs == Len(c.items)
        all_copes == NpFlatten(c, np_ragged)
        all_varcopes == NpFlatten(v, np_ragged)
        outcopes == ReshapeT(all_copes.flat, num_copes)
        outvarcopes == ReshapeT(all_varcopes.flat, num_copes)
    IN  IF all_copes.status # "ok" THEN [status |-> all_copes.status]
        ELSE IF all_varcopes.status # "ok" THEN [status |-> all_varcopes.status]
        ELSE IF outcopes.status # "ok" THEN [status |-> outcopes.status]
        ELSE IF outvarcopes.status # "ok" THEN [status |-> outvarcopes.status]
        ELSE [status |-> "ok", copes |-> outcopes.out,
              varcopes |-> outvarcopes.out, n_runs |-> n_runs]

\* the statistic file of one run and one contrast
StatFile(kind, r, c) == Atom(<<kind, r, c>>)

\* what one run hands over: a list of n files
RunList(kind, r, n) == List([c \in 1..n |-> StatFile(kind, r, c)])

\* the values a series may take: one file, a list of files, or one list of
\* files per run
SeriesValues(kind) ==
    {StatFile(kind, 1, 1)}
    \cup {RunList(kind, 1, n) : n \in 0..MaxRuns}
    \cup UNION {{List([r \in 1..R |-> RunList(kind, r, lens[r])]) :
                    lens \in [1..R -> 1..MaxContrasts]} : R \in 1..MaxRuns}

SortCopesArgs(c, v, n, b) ==
    [fn |-> "sort_copes", copes |-> c, varcopes |-> v,
     contrasts |-> Contrasts(n), np_ragged |-> b]

CallSortCopes ==
    /\ args.fn = "sort_copes"
    /\ result = NotCalled
    /\ result' = sort_copes(args.copes, args.varcopes, args.contrasts, args.np_ragged)
    /\ UNCHANGED <<args, wfVars>>

InitSort ==
    /\ \E c \in SeriesValues("cope"), v \in SeriesValues("varcope"),
          n \in 0..MaxContrasts, b \in {"object", "error"} :
          args = SortCopesArgs(c, v, n, b)
    /\ result = NotCalled
    /\ WorkflowIdle

NextSort == CallSortCopes

SpecSort == InitSort /\ [][NextSort]_vars

\* ---- properties of sort_copes ----

SortCopesCalled == args.fn = "sort_copes" /\ result # NotCalled

\* x is R per-run lists of C scalars each
IsRunMatrix(x, R, C) ==
    /\ IsList(x)
    /\ Len(x.items) = R
    /\ \A r \in 1..R : /\ IsList(x.items[r])
                        /\ AllAtoms(x.items[r])
                        /\ Len(x.items[r].items) = C

\* list i holds element i of run 1, of run 2, ... in run order
TransposeOf(x, R, C) == [i \in 1..C |-> [r \in 1..R |-> x.items[r].items[i]]]

\* C1: given copes and varcopes as R >= 1 per-run lists of C >= 1 elements and C
\* contrasts, sort_copes returns for each series C lists, the i-th holding
\* element i of every run in run order.
C1_Transpose ==
    SortCopesCalled =>
        \A R \in 1..Len(args.copes.items) :
            LET C == Len(args.contrasts)
            IN  (C >= 1 /\ IsRunMatrix(args.copes, R, C)
                        /\ IsRunMatrix(args.varcopes, R, C)) =>
                    /\ result.status = "ok"
                    /\ result.copes = TransposeOf(args.copes, R, C)
                    /\ result.varcopes = TransposeOf(args.varcopes, R, C)

\* the spec's example: three runs, two contrasts
C1_Witness ==
    /\ SortCopesCalled
    /\ IsRunMatrix(args.copes, 3, 2)
    /\ IsRunMatrix(args.varcopes, 3, 2)
    /\ Len(args.contrasts) = 2
    /\ result.status = "ok"
    /\ result.copes =
         << <<StatFile("cope", 1, 1), StatFile("cope", 2, 1), StatFile("cope", 3, 1)>>,
            <<StatFile("cope", 1, 2), StatFile("cope", 2, 2), StatFile("cope", 3, 2)>> >>

\* the nesting of a series: scalar, or the length of each element of the list
ShapeOf(x) ==
    IF ~IsList(x) THEN <<"scalar">>
    ELSE <<"list", [i \in 1..Len(x.items) |->
                      IF IsList(x.items[i]) THEN Len(x.items[i].items) ELSE -1]>>

\* the number of runs R of an accepted input: the number of per-run lists, or
\* one for a single scalar and for a bare list of C scalars
AcceptedForm(x, R, C) ==
    \/ R >= 1 /\ C >= 1 /\ IsRunMatrix(x, R, C)
    \/ R = 1 /\ C = 1 /\ ~IsList(x)
    \/ R = 1 /\ C >= 1 /\ IsList(x) /\ AllAtoms(x) /\ Len(x.items) = C

\* C2: for every accepted input form the returned n_runs is R, the number of
\* elements of every inner list of the returned copes and varcopes.
C2_NRuns ==
    SortCopesCalled =>
        \A R \in 1..MaxRuns :
            LET C == Len(args.contrasts)
            IN  (AcceptedForm(args.copes, R, C) /\ AcceptedForm(args.varcopes, R, C)
                 /\ ShapeOf(args.copes) = ShapeOf(args.varcopes)) =>
                    /\ result.status = "ok"
                    /\ result.n_runs = R
                    /\ \A i \in 1..Len(result.copes) : Len(result.copes[i]) = R
                    /\ \A i \in 1..Len(result.varcopes) : Len(result.varcopes[i]) = R

\* the number of elements of a series once sort_copes has flattened it
FlatCount(x) == Len(NpFlatten(x, args.np_ragged).flat)

Flattens(x) == NpFlatten(x, args.np_ragged).status = "ok"

\* C3: when the number of flattened cope or varcope elements is not a multiple
\* of the contrast count C, sort_copes raises numpy's shape error and returns
\* no reshaped output.
C3_ShapeMismatch ==
    SortCopesCalled =>
        LET C == Len(args.contrasts)
            c == WrapCopes(args.copes, args.varcopes)
            v == WrapVarcopes(args.copes, args.varcopes)
        IN  (/\ C >= 1
             /\ Flattens(c) /\ Flattens(v)
             /\ (FlatCount(c) % C # 0 \/ FlatCount(v) % C # 0)) =>
                /\ result.status = "ValueError"
                /\ DOMAIN result = {"status"}

\* three cope files in a flat list, two contrasts: int(3 / 2) = 1
C3_Witness ==
    /\ SortCopesCalled
    /\ Len(args.contrasts) = 2
    /\ args.copes = RunList("cope", 1, 3)
    /\ args.varcopes = RunList("varcope", 1, 3)
    /\ result.status = "ValueError"

\* C7: sort_copes fails when copes and varcopes differ in shape.
C7_ShapeEquality ==
    SortCopesCalled =>
        (ShapeOf(args.copes) # ShapeOf(args.varcopes) => result.status # "ok")

(***************************************************************************)
(* get_data (lines 33-64)                                                  *)
(***************************************************************************)
Min(S) == CHOOSE m \in S : \A x \in S : m <= x

RECURSIVE SortedSeq(_)
\* the elements of a set of integers, ascending
SortedSeq(S) == IF S = {} THEN <<>> ELSE <<Min(S)>> \o SortedSeq(S \ {Min(S)})

\* os.path.join(bids_dir, f) for a relative f
PathJoin(dir, f) == <<dir, f>>

RECURSIVE SelectRows(_, _, _)
\* the rows of a table whose column col holds v, in table order
SelectRows(rows, col, v) ==
    IF Len(rows) = 0 THEN <<>>
    ELSE (IF Head(rows)[col] = v THEN <<Head(rows)>> ELSE <<>>)
         \o SelectRows(Tail(rows), col, v)

Column(rows, col) == [i \in 1..Len(rows) |-> rows[i][col]]

Values(rows, col) == {rows[i][col] : i \in 1..Len(rows)}

\* lines 42-55: one Bunch from the rows of one run, conditions in groupby order
Bunch(run_data) ==
    LET cs == SortedSeq(Values(run_data, "condition"))
        of(c) == SelectRows(run_data, "condition", cs[c])
    IN  [conditions |-> [c \in 1..Len(cs) |-> Fmt_d(cs[c])],
         onsets |-> [c \in 1..Len(cs) |-> Column(of(c), "onset")],
         durations |-> [c \in 1..Len(cs) |-> Column(of(c), "duration")],
         amplitudes |-> [c \in 1..Len(cs) |-> Column(of(c), "amplitude")]]

RECURSIVE Where(_, _)
\* [r for r in rows if r['subject'] == x]
Where(rows, x) ==
    IF Len(rows) = 0 THEN <<>>
    ELSE (IF PyEq(Head(rows).subject, x) THEN <<Head(rows)>> ELSE <<>>)
         \o Where(Tail(rows), x)

RECURSIVE Bunches(_, _, _)
\* lines 40-56: groupby('run') visits the runs ascending
Bunches(subject_data, run_order, subject_runs) ==
    IF Len(run_order) = 0 THEN <<>>
    ELSE (IF Head(run_order) \in subject_runs
          THEN <<Bunch(SelectRows(subject_data, "run", Head(run_order)))>>
          ELSE <<>>)
         \o Bunches(subject_data, Tail(run_order), subject_runs)

get_data(bids_dir, subject_id, event_data, runs) ==
    LET subject_data == Where(event_data, IntId(PyInt(subject_id)))
        mine == Where(runs, subject_id)
        subject_runs == Values(mine, "number")
        subject_bunches == Bunches(subject_data,
                                   SortedSeq(Values(subject_data, "run")),
                                   subject_runs)
        func == [i \in 1..Len(mine) |-> PathJoin(bids_dir, mine[i].func_path)]
        bm == [i \in 1..Len(mine) |-> PathJoin(bids_dir, mine[i].mask_path)]
    IN  IF Len(bm) = 0 THEN [status |-> "IndexError"]
        ELSE [status |-> "ok", func |-> func, brainmask |-> bm[1],
              subject_info |-> subject_bunches]

\* one row of the event table; the onset tells the rows apart
EventRow(n, f, run, cond, k) ==
    [subject |-> FormOf(n, f), run |-> run, condition |-> cond,
     onset |-> k, duration |-> 1, amplitude |-> 1]

\* event tables of len rows: the subject column has one type f throughout
EventTables(len, f) ==
    {[k \in 1..len |-> EventRow(c[k][1], f, c[k][2], c[k][3], k)] :
        c \in [1..len -> (1..MaxSubjectNo) \X (1..MaxRunNo) \X (1..2)]}

\* one entry of the runs manifest
RunEntry(n, f, number, m) ==
    [subject |-> FormOf(n, f), number |-> number,
     func_path |-> <<"func", n, number>>, mask_path |-> <<"mask", n, m>>]

\* manifests of len entries: at most one entry per subject and run number
Manifests(len, f) ==
    {[k \in 1..len |-> RunEntry(c[k][1], f, c[k][2], c[k][3])] :
        c \in {d \in [1..len -> (1..MaxSubjectNo) \X (1..MaxRunNo) \X (1..2)] :
                  \A i, j \in 1..len :
                     i # j => <<d[i][1], d[i][2]>> # <<d[j][1], d[j][2]>>}}

GetDataArgs(s, e, m) ==
    [fn |-> "get_data", bids_dir |-> "bids", subject_id |-> s,
     event_data |-> e, runs |-> m]

CallGetData ==
    /\ args.fn = "get_data"
    /\ result = NotCalled
    /\ result' = get_data(args.bids_dir, args.subject_id, args.event_data, args.runs)
    /\ UNCHANGED <<args, wfVars>>

InitData ==
    /\ \E s \in SubjectIds, rows \in 0..MaxRows, fe \in Forms,
          entries \in 0..MaxManifest, fm \in Forms :
          \E e \in EventTables(rows, fe), m \in Manifests(entries, fm) :
              args = GetDataArgs(s, e, m)
    /\ result = NotCalled
    /\ WorkflowIdle

NextData == CallGetData

SpecData == InitData /\ [][NextData]_vars

\* ---- properties of get_data ----

GetDataReturned == args.fn = "get_data" /\ result.status = "ok"

\* the same subject, however each side writes it
SameSubject(a, b) == PyInt(a) = PyInt(b)

RECURSIVE OfSubject(_, _)
\* the rows or entries that belong to subject x
OfSubject(rows, x) ==
    IF Len(rows) = 0 THEN <<>>
    ELSE (IF SameSubject(Head(rows).subject, x) THEN <<Head(rows)>> ELSE <<>>)
         \o OfSubject(Tail(rows), x)

\* the runs of the subject that have events and are listed in the manifest
SharedRuns ==
    Values(OfSubject(args.event_data, args.subject_id), "run")
    \cap Values(OfSubject(args.runs, args.subject_id), "number")

\* C6: get_data returns exactly one bundle per run that has events for the
\* subject and is listed for the subject, in ascending run order, whichever
\* way the subject is written in subject_id, the event table and the manifest.
C6_BundlesPerRun ==
    GetDataReturned =>
        LET order == SortedSeq(SharedRuns)
        IN  result.subject_info =
                [k \in 1..Len(order) |->
                    Bunch(SelectRows(OfSubject(args.event_data, args.subject_id),
                                     "run", order[k]))]

\* the mask paths the manifest lists for the runs of subject_id
SubjectMasks == Values(Where(args.runs, args.subject_id), "mask_path")

\* C8: get_data returns a brain mask only when the runs of the subject list
\* one and the same mask path; with differing paths, or no run, it fails.
C8_SingleMask ==
    GetDataReturned =>
        (result.status = "ok" =>
        /\ Cardinality(SubjectMasks) = 1
        /\ \A m \in SubjectMasks : result.brainmask = PathJoin(args.bids_dir, m))

(***************************************************************************)
(* create_first_level (lines 11-197): the graph it declares                *)
(***************************************************************************)
Nodes == {"infosource", "datasource", "modelspec", "modelfit",
          "cope_sorter", "fixed_fx", "subsgen", "datasink"}

\* wf.connect(src, out, dst, in)
Conn(src, out, dst, in) == [src |-> src, out |-> out, dst |-> dst, in |-> in]

\* mutant: line 135 with its two nodes exchanged
Connections_SorterReversed ==
    { Conn("infosource", "subject_id", "datasource", "subject_id"),
      Conn("datasource", "subject_info", "modelspec", "subject_info"),
      Conn("datasource", "func", "modelspec", "functional_runs"),
      Conn("modelspec", "session_info", "modelfit", "inputspec.session_info"),
      Conn("datasource", "func", "modelfit", "inputspec.functional_data"),
      Conn("datasource", "brainmask", "fixed_fx", "flameo.mask_file"),
      Conn("modelfit", "outputspec.copes", "cope_sorter", "copes"),
      Conn("modelfit", "outputspec.varcopes", "cope_sorter", "varcopes"),
      Conn("fixed_fx", "copes", "cope_sorter", "inputspec.copes"),
      Conn("fixed_fx", "varcopes", "cope_sorter", "inputspec.varcopes"),
      Conn("fixed_fx", "n_runs", "cope_sorter", "l2model.num_copes"),
      Conn("modelfit", "outputspec.dof_file", "fixed_fx", "inputspec.dof_files"),
      Conn("infosource", "subject_id", "datasink", "container"),
      Conn("infosource", "subject_id", "subsgen", "subject_id"),
      Conn("subsgen", "substitutions", "datasink", "substitutions"),
      Conn("modelfit", "modelgen.design_cov", "datasink", "qa.model"),
      Conn("modelfit", "modelgen.design_image", "datasink", "qa.model.@matrix_image"),
      Conn("modelfit", "modelgen.design_file", "datasink", "qa.model.@matrix"),
      Conn("fixed_fx", "outputspec.res4d", "datasink", "res4d"),
      Conn("fixed_fx", "outputspec.copes", "datasink", "copes"),
      Conn("fixed_fx", "outputspec.varcopes", "datasink", "varcopes"),
      Conn("fixed_fx", "outputspec.zstats", "datasink", "zstats"),
      Conn("fixed_fx", "outputspec.tstats", "datasink", "tstats") }

\* mutant: the container is taken from the data source, not from the iterator
Connections_ContainerFromData ==
    { Conn("infosource", "subject_id", "datasource", "subject_id"),
      Conn("datasource", "subject_info", "modelspec", "subject_info"),
      Conn("datasource", "func", "modelspec", "functional_runs"),
      Conn("modelspec", "session_info", "modelfit", "inputspec.session_info"),
      Conn("datasource", "func", "modelfit", "inputspec.functional_data"),
      Conn("datasource", "brainmask", "fixed_fx", "flameo.mask_file"),
      Conn("modelfit", "outputspec.copes", "cope_sorter", "copes"),
      Conn("modelfit", "outputspec.varcopes", "cope_sorter", "varcopes"),
      Conn("cope_sorter", "copes", "fixed_fx", "inputspec.copes"),
      Conn("cope_sorter", "varcopes", "fixed_fx", "inputspec.varcopes"),
      Conn("cope_sorter", "n_runs", "fixed_fx", "l2model.num_copes"),
      Conn("modelfit", "outputspec.dof_file", "fixed_fx", "inputspec.dof_files"),
      Conn("datasource", "subject_info", "datasink", "container"),
      Conn("infosource", "subject_id", "subsgen", "subject_id"),
      Conn("subsgen", "substitutions", "datasink", "substitutions"),
      Conn("modelfit", "modelgen.design_cov", "datasink", "qa.model"),
      Conn("modelfit", "modelgen.design_image", "datasink", "qa.model.@matrix_image"),
      Conn("modelfit", "modelgen.design_file", "datasink", "qa.model.@matrix"),
      Conn("fixed_fx", "outputspec.res4d", "datasink", "res4d"),
      Conn("fixed_fx", "outputspec.copes", "datasink", "copes"),
      Conn("fixed_fx", "outputspec.varcopes", "datasink", "varcopes"),
      Conn("fixed_fx", "outputspec.zstats", "datasink", "zstats"),
      Conn("fixed_fx", "outputspec.tstats", "datasink", "tstats") }

\* every wf.connect of create_first_level, in source order; modelfit and
\* fixed_fx are sub-workflows, their inner node named in the port
Connections ==
    { Conn("infosource", "subject_id", "datasource", "subject_id"),
      Conn("datasource", "subject_info", "modelspec", "subject_info"),
      Conn("datasource", "func", "modelspec", "functional_runs"),
      Conn("modelspec", "session_info", "modelfit", "inputspec.session_info"),
      Conn("datasource", "func", "modelfit", "inputspec.functional_data"),
      Conn("datasource", "brainmask", "fixed_fx", "flameo.mask_file"),
      Conn("modelfit", "outputspec.copes", "cope_sorter", "copes"),
      Conn("modelfit", "outputspec.varcopes", "cope_sorter", "varcopes"),
      Conn("cope_sorter", "copes", "fixed_fx", "inputspec.copes"),
      Conn("cope_sorter", "varcopes", "fixed_fx", "inputspec.varcopes"),
      Conn("cope_sorter", "n_runs", "fixed_fx", "l2model.num_copes"),
      Conn("modelfit", "outputspec.dof_file", "fixed_fx", "inputspec.dof_files"),
      Conn("infosource", "subject_id", "datasink", "container"),
      Conn("infosource", "subject_id", "subsgen", "subject_id"),
      Conn("subsgen", "substitutions", "datasink", "substitutions"),
      Conn("modelfit", "modelgen.design_cov", "datasink", "qa.model"),
      Conn("modelfit", "modelgen.design_image", "datasink", "qa.model.@matrix_image"),
      Conn("modelfit", "modelgen.design_file", "datasink", "qa.model.@matrix"),
      Conn("fixed_fx", "outputspec.res4d", "datasink", "res4d"),
      Conn("fixed_fx", "outputspec.copes", "datasink", "copes"),
      Conn("fixed_fx", "outputspec.varcopes", "datasink", "varcopes"),
      Conn("fixed_fx", "outputspec.zstats", "datasink", "zstats"),
      Conn("fixed_fx", "outputspec.tstats", "datasink", "tstats") }

\* line 27: infosource.iterables = ('subject_id', subjects)
Iterables(subjects) ==
    <<[node |-> "infosource", field |-> "subject_id", values |-> subjects]>>

\* lines 131 and 182: the contrasts set as static inputs
StaticInputs(contrasts) ==
    [cope_sorter |-> [contrasts |-> contrasts], subsgen |-> [conds |-> contrasts]]

\* subject lists: distinct subjects in ascending order, written in one form
\* (the order of the list only numbers the clones)
SubjectLists ==
    UNION {{[k \in 1..len |-> FormOf(c[k], f)] :
               c \in {d \in [1..len -> 1..MaxSubjects] :
                         \A i, j \in 1..len : i < j => d[i] < d[j]}} :
           len \in 0..MaxSubjects, f \in Forms}

CreateArgs ==
    {[fn |-> "create_first_level", subjects |-> s, contrasts |-> Contrasts(1)] :
        s \in SubjectLists}

CreateFirstLevel ==
    /\ args.fn = "create_first_level"
    /\ phase = "new"
    /\ wf' = [connections |-> Connections,
              iterables |-> Iterables(args.subjects),
              inputs |-> StaticInputs(args.contrasts)]
    /\ phase' = "built"
    /\ UNCHANGED <<args, result, nodes, edges, done, outputs, published>>

(***************************************************************************)
(* The engine that expands and runs the workflow (spec sections 4.3, 4.6)  *)
(***************************************************************************)
Successors(conns, S) == S \cup {c.dst : c \in {d \in conns : d.src \in S}}

RECURSIVE Reach(_, _)
\* the least set that holds S and is closed under Successors
Reach(conns, S) ==
    UNION {IF Successors(conns, T) = T THEN T ELSE Reach(conns, Successors(conns, T)) :
               T \in {S}}

\* the downstream closure of node n: n and every node reachable from it
Closure(conns, n) == Reach(conns, {n})

\* the bound input already has an incoming connection
Ambiguous(w) ==
    \E b \in 1..Len(w.iterables) : \E c \in w.connections :
        c.dst = w.iterables[b].node /\ c.in = w.iterables[b].field

\* the nodes replicated by the bindings of w
Replicated(w) ==
    UNION {Closure(w.connections, w.iterables[b].node) : b \in 1..Len(w.iterables)}

\* the replicas of node n: one clone per candidate value if n is in the
\* closure of a binding, one copy (replica 0) otherwise
ReplicasOf(w, n) ==
    IF n \in Replicated(w)
    THEN UNION {{<<n, k>> : k \in 1..Len(w.iterables[b].values)} :
                   b \in {x \in 1..Len(w.iterables) :
                             n \in Closure(w.connections, w.iterables[x].node)}}
    ELSE {<<n, 0>>}

\* connection c between replicas: a clone is fed by its sibling clone, or by
\* the shared copy of a node outside the closure
ReplicaEdges(w, c) ==
    {[src |-> p, out |-> c.out, dst |-> r, in |-> c.in] :
        p \in {x \in ReplicasOf(w, c.src) : x[2] = 0} , r \in ReplicasOf(w, c.dst)}
    \cup {[src |-> <<c.src, r[2]>>, out |-> c.out, dst |-> r, in |-> c.in] :
              r \in {x \in ReplicasOf(w, c.dst) : <<c.src, x[2]>> \in ReplicasOf(w, c.src)}}

\* section 4.3: the expanded graph
Expand ==
    /\ phase = "built"
    /\ IF Ambiguous(wf)
       THEN phase' = "failed" /\ nodes' = {} /\ edges' = {}
       ELSE /\ phase' = "expanded"
            /\ nodes' = UNION {ReplicasOf(wf, n) : n \in Nodes}
            /\ edges' = UNION {ReplicaEdges(wf, c) : c \in wf.connections}
    /\ UNCHANGED <<args, result, wf, done, outputs, published>>

Incoming(rep) == {e \in edges : e.dst = rep}

\* every producer of rep has run
Eligible(rep) == \A e \in Incoming(rep) : e.src \in done

Unset == [kind |-> "unset", n |-> 0, s |-> <<>>]

\* the value resolved on input port p of rep
InputValue(rep, p) ==
    LET es == {e \in Incoming(rep) : e.in = p}
    IN  IF es = {} THEN Unset
        ELSE LET e == CHOOSE d \in es : TRUE
             IN  outputs[e.src][e.out]

\* the candidate value a clone of a bound node was given
BoundValue(rep, field) ==
    LET bs == {b \in 1..Len(wf.iterables) :
                  wf.iterables[b].node = rep[1] /\ wf.iterables[b].field = field}
    IN  IF bs = {} \/ rep[2] = 0 THEN Unset
        ELSE wf.iterables[CHOOSE b \in bs : TRUE].values[rep[2]]

\* the opaque value on port p of replica k of node n
Token(n, p, k) == [kind |-> "file", n |-> k, s |-> <<n, p>>]

OutPorts(rep) == {e.out : e \in {d \in edges : d.src = rep}}

\* what a node produces: infosource hands on its subject_id, subsgen calls
\* get_subs, the other units are opaque and yield one token per port
NodeOutputs(rep) ==
    [p \in OutPorts(rep) |->
        IF rep[1] = "infosource" /\ p = "subject_id" THEN BoundValue(rep, p)
        ELSE IF rep[1] = "subsgen" /\ p = "substitutions"
             THEN get_subs(InputValue(rep, "subject_id"), wf.inputs.subsgen.conds)
        ELSE Token(rep[1], p, rep[2])]

\* section 4.6: a node runs once all its producers have run; the sink stores
\* what it was handed under its container
RunNode(rep) ==
    /\ phase = "expanded"
    /\ rep \in nodes \ done
    /\ Eligible(rep)
    /\ done' = done \cup {rep}
    /\ outputs' = [r \in done \cup {rep} |->
                      IF r = rep THEN NodeOutputs(rep) ELSE outputs[r]]
    /\ published' =
         IF rep[1] = "datasink"
         THEN Append(published,
                     [replica |-> rep[2],
                      container |-> InputValue(rep, "container"),
                      substitutions |-> InputValue(rep, "substitutions")])
         ELSE published
    /\ UNCHANGED <<args, result, wf, phase, nodes, edges>>

Init ==
    /\ args \in CreateArgs
    /\ result = NotCalled
    /\ wf = NoWorkflow
    /\ phase = "new"
    /\ nodes = {}
    /\ edges = {}
    /\ done = {}
    /\ outputs = <<>>
    /\ published = <<>>

Next ==
    \/ CreateFirstLevel
    \/ Expand
    \/ \E rep \in nodes : RunNode(rep)

Spec == Init /\ [][Next]_vars

\* the executor keeps launching eligible nodes while any is left
FairSpec == Spec /\ WF_vars(Next)

\* ---- properties of the workflow ----

Built == args.fn = "create_first_level" /\ phase \in {"built", "expanded", "failed"}

NSubjects == Len(args.subjects)

AllNodesRun == phase = "expanded" /\ done = nodes

Containers == {published[i].container : i \in 1..Len(published)}

\* C9: the only iterable binding is on infosource.subject_id, infosource has
\* no incoming connection and every node lies in its downstream closure; so
\* expansion over N distinct subjects clones every node N times, each
\* datasink clone is handed the subject of its own clone as container and,
\* through subsgen, as substitution tag, no two clones share a container, and
\* once all have run there are exactly N containers.
C9_OneContainerPerSubject ==
    (Built /\ \A i, j \in 1..NSubjects : i # j => args.subjects[i] # args.subjects[j]) =>
        /\ Len(wf.iterables) = 1
        /\ wf.iterables[1].node = "infosource"
        /\ wf.iterables[1].field = "subject_id"
        /\ \A c \in wf.connections : c.dst # "infosource"
        /\ Closure(wf.connections, "infosource") = Nodes
        /\ phase # "failed"
        /\ phase = "expanded" => nodes = Nodes \X (1..NSubjects)
        /\ \A i \in 1..Len(published) :
              LET subject == args.subjects[published[i].replica]
              IN  /\ published[i].container = subject
                  /\ published[i].substitutions[1] =
                        Sub(S_subject_id_ \o PyStr(subject), <<>>)
        /\ \A i, j \in 1..Len(published) :
              i # j => published[i].container # published[j].container
        /\ AllNodesRun => Cardinality(Containers) = NSubjects

\* two subjects, every node run, two containers published
C9_Witness ==
    /\ AllNodesRun
    /\ NSubjects = 2
    /\ Len(published) = 2
    /\ Containers = {args.subjects[1], args.subjects[2]}

\* the node pairs joined by at least one connection
NodeEdges(conns) == {<<c.src, c.dst>> : c \in conns}

\* no node is reachable from one of its own successors
Acyclic(conns) ==
    \A n \in Nodes : n \notin Reach(conns, {c.dst : c \in {d \in conns : d.src = n}})

RanBefore(a, b) == \A k \in 0..NSubjects : <<b, k>> \in done => <<a, k>> \in done

C10_Safety ==
    Built =>
        /\ NodeEdges(wf.connections) =
             { <<"infosource", "datasource">>, <<"datasource", "modelspec">>,
               <<"modelspec", "modelfit">>, <<"modelfit", "cope_sorter">>,
               <<"cope_sorter", "fixed_fx">>, <<"fixed_fx", "datasink">>,
               <<"infosource", "subsgen">>, <<"subsgen", "datasink">>,
               <<"datasource", "modelfit">>, <<"datasource", "fixed_fx">>,
               <<"modelfit", "fixed_fx">>, <<"modelfit", "datasink">>,
               <<"infosource", "datasink">> }
        /\ Acyclic(wf.connections)
        /\ (phase = "expanded" /\ done # nodes) =>
               \E rep \in nodes \ done : Eligible(rep)
        /\ RanBefore("subsgen", "datasink")
        /\ RanBefore("fixed_fx", "datasink")
        /\ RanBefore("cope_sorter", "fixed_fx")

\* C10: the declared connections form a directed acyclic graph; a scheduler
\* that runs a node only after all its producers never finds itself without an
\* eligible node while some are left, eventually has run every node, and in
\* every order runs datasink after subsgen and fixed_fx, and fixed_fx after
\* cope_sorter.
C10_Schedule == []C10_Safety /\ <>AllNodesRun

\* every node of two subjects has run, the sinks last
C10_Witness ==
    /\ AllNodesRun
    /\ NSubjects = 2
    /\ Cardinality(done) = 2 * Cardinality(Nodes)
====
